---- MODULE Spec2Model ----
(***************************************************************************)
(* Model of the news archive pipeline of MarketSentimentSheets_V2:         *)
(* identity assignment (make_news_id, make_article_key and the two ensure  *)
(* functions), the per-ticker fetch loop of main(), the merge + dedup +    *)
(* enrichment + save tail of main(), and ensure_sentiment of               *)
(* news_sentiment.py.                                                      *)
(*                                                                         *)
(* Representation.                                                         *)
(*  - A Python str is a sequence of one-character strings, so upper(),     *)
(*    lower() and strip() are computed, not assumed.                       *)
(*  - None is NONE, a pandas NaN / NA cell is NAN; both are sequences of   *)
(*    one token that is not a character, so they differ from every str.    *)
(*  - sha256(key).hexdigest() is modelled as an injective function of the  *)
(*    key string: the token "sha256" followed by the key's characters.     *)
(*  - A DataFrame is a sequence of row records.  A column that is absent   *)
(*    from the frame is represented by NAN in that field of every row      *)
(*    (the code treats "column absent" and "column has a null" alike).     *)
(*    The frame pd.DataFrame([]) / pd.concat of empty frames, which has    *)
(*    no rows and no columns, is the empty sequence.                       *)
(*  - A sentiment score is <<"score", n>> with n in hundredths.            *)
(*                                                                         *)
(* Specifications.                                                         *)
(*  - Spec: runs of main() one after another, starting with no             *)
(*    news_db.csv; each ticker's fetch returns articles or raises.         *)
(*  - RecSpec: the runs of Spec, with the article lists the fetch client    *)
(*    returned kept in an observation variable.                            *)
(*  - FnSpec: ensure_news_id, ensure_article_key and ensure_sentiment      *)
(*    applied once to a table drawn from a bounded set.                    *)
(*  - KeySpec: ensure_news_id and ensure_article_key applied once to a     *)
(*    table of records whose tickers, urls and titles differ in letter     *)
(*    case and surrounding blanks.                                         *)
(***************************************************************************)
EXTENDS Integers, Sequences, FiniteSets, TLC

\* ------------------------------------------------------------------ bounds
\* Articles one ticker's fetch can return; runs of main() explored; rows of a
\* table handed to the ensure functions in FnSpec.
MaxArticles == 2
MaxRuns == 2
MaxRows == 2

\* ------------------------------------------------------------ Python values
NONE == <<"None">>
NAN == <<"NaN">>

\* pandas isna(): None and NaN are both missing.
IsNA(v) == v = NONE \/ v = NAN

\* isinstance(v, str)
IsStr(v) == ~IsNA(v)

LowerLetters == <<"a", "b", "d", "n", "v", "x", "y">>
UpperLetters == <<"A", "B", "D", "N", "V", "X", "Y">>
Whitespace == {" "}

UpperChar(c) ==
    IF \E i \in DOMAIN LowerLetters : LowerLetters[i] = c
    THEN UpperLetters[CHOOSE i \in DOMAIN LowerLetters : LowerLetters[i] = c]
    ELSE c

LowerChar(c) ==
    IF \E i \in DOMAIN UpperLetters : UpperLetters[i] = c
    THEN LowerLetters[CHOOSE i \in DOMAIN UpperLetters : UpperLetters[i] = c]
    ELSE c

\* str.upper(), str.lower()
Upper(s) == [i \in DOMAIN s |-> UpperChar(s[i])]
Lower(s) == [i \in DOMAIN s |-> LowerChar(s[i])]

RECURSIVE LStrip(_)
LStrip(s) == IF s # <<>> /\ Head(s) \in Whitespace THEN LStrip(Tail(s)) ELSE s

RECURSIVE RStrip(_)
RStrip(s) ==
    IF s # <<>> /\ s[Len(s)] \in Whitespace
    THEN RStrip(SubSeq(s, 1, Len(s) - 1))
    ELSE s

\* str.strip()
Strip(s) == RStrip(LStrip(s))

\* Python's `x or ""`: None and "" are falsy; a float NaN is truthy and is
\* handed on unchanged.
OrEmpty(v) == IF v = NONE THEN <<>> ELSE v

\* ---------------------------------------------------------------- identity
\* hashlib.sha256(key.encode("utf-8")).hexdigest(), injective in key.
Sha256(key) == <<"sha256">> \o key

\* The value standing for an AttributeError raised by a str method called on
\* a float NaN (NaN is truthy, so `(x or "")` does not replace it).
AttributeError == <<"AttributeError">>

\* make_news_id: ticker upper-cased (not stripped), url and publishedAt
\* stripped, joined with "|".
make_news_id(ticker, url, published_at) ==
    IF ticker = NAN \/ url = NAN \/ published_at = NAN
    THEN AttributeError
    ELSE Sha256(Upper(OrEmpty(ticker)) \o <<"|">> \o Strip(OrEmpty(url))
                \o <<"|">> \o Strip(OrEmpty(published_at)))

\* make_article_key: ticker upper-cased and stripped, title stripped and
\* lower-cased, publishedAt stripped.
make_article_key(ticker, title, published_at) ==
    IF ticker = NAN \/ title = NAN \/ published_at = NAN
    THEN AttributeError
    ELSE Sha256(Strip(Upper(OrEmpty(ticker))) \o <<"|">> \o Lower(Strip(OrEmpty(title)))
                \o <<"|">> \o Strip(OrEmpty(published_at)))

\* A function result: exc is "" on a normal return, else the exception's name.
Ok(df) == [exc |-> "", df |-> df]
Raise(name) == [exc |-> name, df |-> <<>>]

\* ensure_news_id: an empty frame is returned as is; when the column is
\* absent or holds any null, the column is recomputed for EVERY row.
ensure_news_id(df) ==
    LET ids == [i \in DOMAIN df |->
                  make_news_id(df[i].Ticker, df[i].url, df[i].publishedAt)]
    IN  IF df = <<>> THEN Ok(df)
        ELSE IF \E i \in DOMAIN df : IsNA(df[i].NewsID)
        THEN IF \E i \in DOMAIN df : ids[i] = AttributeError
             THEN Raise("AttributeError")
             ELSE Ok([i \in DOMAIN df |-> [df[i] EXCEPT !.NewsID = ids[i]]])
        ELSE Ok(df)

\* ensure_article_key: as ensure_news_id, for the ArticleKey column.
ensure_article_key(df) ==
    LET keys == [i \in DOMAIN df |->
                   make_article_key(df[i].Ticker, df[i].title, df[i].publishedAt)]
    IN  IF df = <<>> THEN Ok(df)
        ELSE IF \E i \in DOMAIN df : IsNA(df[i].ArticleKey)
        THEN IF \E i \in DOMAIN df : keys[i] = AttributeError
             THEN Raise("AttributeError")
             ELSE Ok([i \in DOMAIN df |-> [df[i] EXCEPT !.ArticleKey = keys[i]]])
        ELSE Ok(df)

\* ------------------------------------------------------------------ pandas
\* The key drop_duplicates compares: all missing values count as one value.
DupKey(v) == IF IsNA(v) THEN NAN ELSE v

RECURSIVE KeepFirst(_, _, _)
KeepFirst(df, col, seen) ==
    IF df = <<>> THEN <<>>
    ELSE LET k == DupKey(Head(df)[col])
         IN  IF k \in seen
             THEN KeepFirst(Tail(df), col, seen)
             ELSE <<Head(df)>> \o KeepFirst(Tail(df), col, seen \cup {k})

\* drop_duplicates, mutated: keep="last".
RECURSIVE drop_duplicates_keep_last(_, _)
drop_duplicates_keep_last(df, col) ==
    IF df = <<>> THEN <<>>
    ELSE IF \E k \in 2..Len(df) : DupKey(df[k][col]) = DupKey(df[1][col])
    THEN drop_duplicates_keep_last(Tail(df), col)
    ELSE <<Head(df)>> \o drop_duplicates_keep_last(Tail(df), col)

\* DataFrame.drop_duplicates(subset=[col]), keep="first".
drop_duplicates(df, col) == KeepFirst(df, col, {})

\* What a cell is after to_csv then read_csv: None, NaN and the empty string
\* are all written as an empty field, which is read back as NaN.
CsvCell(v) == IF IsNA(v) \/ v = <<>> THEN NAN ELSE v

CsvRow(r) == [f \in DOMAIN r |-> CsvCell(r[f])]

\* DataFrame.to_csv(db_path, index=False) followed by pd.read_csv(db_path).
CsvTable(df) == [i \in DOMAIN df |-> CsvRow(df[i])]

\* --------------------------------------------------------------- sentiment
\* The compound scores (in hundredths) the analyzer is taken to return.
Compounds == {-5, 0, 5}

\* The text columns of ensure_sentiment, in order.
text_columns == <<"title", "description", "content_snippet">>

\* " ".join(parts)
RECURSIVE Join(_)
Join(parts) ==
    IF parts = <<>> THEN <<>>
    ELSE IF Len(parts) = 1 THEN parts[1]
    ELSE parts[1] \o <<" ">> \o Join(Tail(parts))

\* Parts, mutated: only the first text column is read.
Parts_first_only(row, cols) ==
    IF cols = <<>> THEN <<>>
    ELSE LET val == row[Head(cols)]
         IN  IF IsStr(val) /\ Strip(val) # <<>> THEN <<Strip(val)>> ELSE <<>>

\* The parts list built for one row: each text column that holds a str with
\* a non-empty strip(), stripped, in column order.
RECURSIVE Parts(_, _)
Parts(row, cols) ==
    IF cols = <<>> THEN <<>>
    ELSE LET val == row[Head(cols)]
         IN  (IF IsStr(val) /\ Strip(val) # <<>> THEN <<Strip(val)>> ELSE <<>>)
             \o Parts(row, Tail(cols))

ComposedText(row) == Join(Parts(row, text_columns))

\* Whether _sentiment_for_text reaches _SIA.polarity_scores for this text.
Scored(text) == text # <<>> /\ Strip(text) # <<>>

LabelOf(compound) ==
    IF compound >= 5 THEN <<"positive">>
    ELSE IF compound <= -5 THEN <<"negative">>
    ELSE <<"neutral">>

\* _sentiment_for_text: (None, None) for an empty text, else the analyzer's
\* compound score sia[text] and its label.
sentiment_for_text(sia, text) ==
    IF ~Scored(text)
    THEN [score |-> NONE, label |-> NONE]
    ELSE [score |-> <<"score", sia[text]>>, label |-> LabelOf(sia[text])]

\* ensure_sentiment, mutated: scores every row again.
ensure_sentiment_all(sia, df) ==
    [i \in DOMAIN df |->
        LET s == sentiment_for_text(sia, ComposedText(df[i]))
        IN  [df[i] EXCEPT !.sentiment_score = IF s.score = NONE THEN NAN ELSE s.score,
                          !.sentiment_label = s.label]]

\* ensure_sentiment: only the rows of the mask (sentiment_score is null) are
\* assigned; a None score stored in the float column is NaN.
ensure_sentiment(sia, df) ==
    [i \in DOMAIN df |->
        IF IsNA(df[i].sentiment_score)
        THEN LET s == sentiment_for_text(sia, ComposedText(df[i]))
             IN  [df[i] EXCEPT !.sentiment_score = IF s.score = NONE THEN NAN ELSE s.score,
                               !.sentiment_label = s.label]
        ELSE df[i]]

\* The rows for which ensure_sentiment calls _SIA.polarity_scores.
polarity_calls(df) ==
    {i \in DOMAIN df : IsNA(df[i].sentiment_score) /\ Scored(ComposedText(df[i]))}

\* ------------------------------------------------------------------- fetch
\* The tickers of the run (the head of the source's list).
TICKERS == << <<"N", "V", "D", "A">>, <<"M", "S", "F", "T">> >>

\* The raw article dicts the news API can return.  r1 and r2 differ in url
\* only (same title and time); r3 has the url of r1 with another time, and no
\* title or text.
RawArticles ==
    { [url |-> <<"a">>, title |-> <<"x">>, publishedAt |-> <<"1">>,
       description |-> NONE, content |-> NONE],
      [url |-> <<"b">>, title |-> <<"x">>, publishedAt |-> <<"1">>,
       description |-> NONE, content |-> NONE],
      [url |-> <<"a">>, title |-> NONE, publishedAt |-> <<"2">>,
       description |-> NONE, content |-> NONE] }

\* The article lists one ticker's fetch can accumulate.
ArticleLists == UNION {[1..n -> RawArticles] : n \in 0..MaxArticles}

\* The responses of requests.get: status, whether the body is JSON, and the
\* error payload's code.
Responses ==
    [status : {200, 429, 500}, json : BOOLEAN, code : {"rateLimited", "other"}]

NoException == [type |-> "", status |-> 0, code |-> ""]

\* fetch_page: the exception it raises for this API key and response
\* (NoException when it returns response.json()).
fetch_page(key_set, resp) ==
    IF ~key_set
    THEN [type |-> "RuntimeError", status |-> 0, code |-> "NEWSAPI_KEY is not set"]
    ELSE IF resp.status # 200
    THEN IF resp.json
         THEN [type |-> "RuntimeError", status |-> resp.status, code |-> resp.code]
         ELSE [type |-> "HTTPError", status |-> resp.status, code |-> ""]
    ELSE IF resp.json THEN NoException
    ELSE [type |-> "JSONDecodeError", status |-> resp.status, code |-> ""]

\* IsRateLimit, mutated: every RuntimeError counts as a rate limit.
IsRateLimit_any(e) == TRUE

\* The test inside main()'s `except RuntimeError` clause: the message holds
\* "NewsAPI error 429" or "rateLimited".
IsRateLimit(e) == e.status = 429 \/ e.code = "rateLimited"

\* The row fetch_news_for_ticker builds from one article; the frame has no
\* NewsID, ArticleKey or sentiment column yet.
RowOf(ticker, a) ==
    [Ticker |-> Upper(ticker), title |-> a.title, description |-> a.description,
     url |-> a.url, publishedAt |-> a.publishedAt, content_snippet |-> a.content,
     NewsID |-> NAN, ArticleKey |-> NAN,
     sentiment_score |-> NAN, sentiment_label |-> NAN]

\* fetch_news_for_ticker, after the articles are in: rows, de-duplicated by
\* url, then NewsID assigned.
fetch_news_for_ticker(ticker, articles) ==
    LET df == [i \in DOMAIN articles |-> RowOf(ticker, articles[i])]
    IN  ensure_news_id(drop_duplicates(df, "url")).df

\* -------------------------------------------------------------- main's tail
\* The persisted file news_db.csv: absent, a file with no header and no rows
\* (what to_csv writes for a frame without columns), or a table.
NoFile == [kind |-> "none", rows |-> <<>>]

\* final_df.to_csv(db_path, index=False)
to_csv(df) ==
    IF df = <<>> THEN [kind |-> "blank", rows |-> <<>>]
    ELSE [kind |-> "table", rows |-> CsvTable(df)]

\* pd.read_csv(db_path): a file with no columns raises EmptyDataError.
read_csv(file) ==
    IF file.kind = "blank" THEN Raise("EmptyDataError") ELSE Ok(file.rows)

\* ensure_news_id then ensure_article_key.
ensure_ids(df) ==
    LET a == ensure_news_id(df)
    IN  IF a.exc # "" THEN a ELSE ensure_article_key(a.df)

\* Whether the list s is the beginning of the list t.
IsPrefix(s, t) == Len(s) <= Len(t) /\ SubSeq(t, 1, Len(s)) = s

\* pd.concat(all_dfs, ignore_index=True)
RECURSIVE Concat(_)
Concat(dfs) == IF dfs = <<>> THEN <<>> ELSE Head(dfs) \o Concat(Tail(dfs))

IdsOf(df) == {df[i].NewsID : i \in DOMAIN df}
KeysOf(df) == {df[i].ArticleKey : i \in DOMAIN df}

\* new_df[~new_df["NewsID"].isin(existing_ids)]
RECURSIVE NotIn(_, _)
NotIn(df, ids) ==
    IF df = <<>> THEN <<>>
    ELSE (IF Head(df).NewsID \in ids THEN <<>> ELSE <<Head(df)>>) \o NotIn(Tail(df), ids)

\* The concat of line 347, mutated: the new rows first.
MergeFrames_new_first(existing_df, new_only_df) == new_only_df \o existing_df

\* pd.concat([existing_df, new_only_df], ignore_index=True)
MergeFrames(existing_df, new_only_df) == existing_df \o new_only_df

Built(df, existing, after) ==
    [exc |-> "", nothing |-> FALSE, df |-> df, existing |-> existing, after |-> after]
BuildRaise(name) ==
    [exc |-> name, nothing |-> FALSE, df |-> <<>>, existing |-> 0, after |-> 0]

\* "BUILD OR LOAD DATAFRAME": final_df before the dedup, or the exception
\* raised on the way, or the "Nothing to do" return.
BuildFinal(file, dfs) ==
    IF dfs = <<>>
    THEN IF file.kind = "none"
         THEN [exc |-> "", nothing |-> TRUE, df |-> <<>>, existing |-> 0, after |-> 0]
         ELSE LET r == read_csv(file)
                  e == ensure_ids(r.df)
              IN  IF r.exc # "" THEN BuildRaise(r.exc)
                  ELSE IF e.exc # "" THEN BuildRaise(e.exc)
                  ELSE Built(e.df, Len(e.df), 0)
    ELSE LET n == ensure_ids(Concat(dfs))
         IN  IF n.exc # "" THEN BuildRaise(n.exc)
             ELSE IF file.kind = "none" THEN Built(n.df, 0, Len(n.df))
             ELSE LET r == read_csv(file)
                      e == ensure_ids(r.df)
                      new_only_df == NotIn(n.df, IdsOf(e.df))
                  IN  IF r.exc # "" THEN BuildRaise(r.exc)
                      ELSE IF e.exc # "" THEN BuildRaise(e.exc)
                      ELSE IF n.df = <<>> THEN BuildRaise("KeyError")
                      ELSE IF Len(new_only_df) = 0 THEN Built(e.df, Len(e.df), 0)
                      ELSE Built(MergeFrames(e.df, new_only_df), Len(e.df), Len(new_only_df))

\* "DEDUP & SENTIMENT", mutated: the ArticleKey pass is left out.
Dedup_news_id_only(df) == drop_duplicates(df, "NewsID")

\* "DEDUP & SENTIMENT", mutated: the ArticleKey pass keeps the last occurrence.
Dedup_key_keep_last(df) ==
    drop_duplicates_keep_last(drop_duplicates(df, "NewsID"), "ArticleKey")

\* "DEDUP & SENTIMENT": the NewsID pass, then the ArticleKey pass.
Dedup(df) == drop_duplicates(drop_duplicates(df, "NewsID"), "ArticleKey")

Outcome(status, exc, stage, existing, after) ==
    [status |-> status, exc |-> exc, stage |-> stage,
     existing |-> existing, after |-> after]

\* main() from "BUILD OR LOAD DATAFRAME" to the end: the file it leaves and
\* how the run ends.
main_tail(sia, file, dfs) ==
    LET b == BuildFinal(file, dfs)
        k == ensure_article_key(b.df)
        final_df == ensure_sentiment(sia, Dedup(k.df))
    IN  IF b.nothing
        THEN [file |-> file, out |-> Outcome("nothing_to_do", "", "merge", 0, 0)]
        ELSE IF b.exc # ""
        THEN [file |-> file, out |-> Outcome("raised", b.exc, "merge", 0, 0)]
        ELSE IF k.exc # ""
        THEN [file |-> file, out |-> Outcome("raised", k.exc, "merge", 0, 0)]
        ELSE [file |-> to_csv(final_df),
              out |-> Outcome("saved", "", "merge", b.existing, b.after)]

\* ------------------------------------------------------------------- state
VARIABLES
    db,              \* the file news_db.csv
    pc,              \* "idle" between runs, "fetch" inside main()'s ticker loop
    i,               \* index into TICKERS of the loop's next ticker
    all_dfs,         \* main()'s all_dfs
    hit_rate_limit,  \* main()'s hit_rate_limit
    key_set,         \* whether NEWSAPI_KEY is set in this run's environment
    analyzer,        \* _SIA.polarity_scores as a function text -> compound
    runs,            \* runs of main() started
    out,             \* how the last run ended and what it printed
    exc,             \* the exception of the run's latest fetch (observation)
    limit_at,        \* ticker index at which the rate limit was caught, or 0
    fetches,         \* index of the last ticker whose fetch was attempted
    fetched,         \* RecSpec: the article lists the fetches of this run returned
    repeat,          \* whether the news API answers this run as it did the previous one
    prev,            \* the all_dfs of the previous, saving run, kept for a repeat run
    tbl,             \* FnSpec: the table the ensure functions are applied to
    tbl0,            \* FnSpec: the table as drawn
    op,              \* FnSpec: the function applied last
    calls            \* FnSpec: rows for which the analyzer was called

vars ==
    <<db, pc, i, all_dfs, hit_rate_limit, key_set, analyzer, runs, out, exc,
      limit_at, fetches, fetched, repeat, prev, tbl, tbl0, op, calls>>

fnvars == <<tbl, tbl0, op, calls>>

\* The texts the analyzer can be asked about in a run.
Texts == { <<"x">> }

\* The analyzers of Spec.
Analyzers == [Texts -> Compounds]

NoOutcome == Outcome("", "", "", 0, 0)

NoPrev == [saved |-> FALSE, dfs |-> <<>>]

Init ==
    /\ db = NoFile
    /\ pc = "idle"
    /\ i = 1
    /\ all_dfs = <<>>
    /\ hit_rate_limit = FALSE
    /\ key_set = TRUE
    /\ analyzer \in Analyzers
    /\ runs = 0
    /\ out = NoOutcome
    /\ exc = NoException
    /\ limit_at = 0
    /\ fetches = 0
    /\ fetched = <<>>
    /\ repeat = FALSE
    /\ prev = NoPrev
    /\ tbl = <<>>
    /\ tbl0 = <<>>
    /\ op = ""
    /\ calls = {}

\* main() is started: load_dotenv() has read the environment.  The run is
\* either a repeat (the news API will answer as in the previous run, which
\* saved) or not.
StartRun ==
    /\ pc = "idle"
    /\ runs < MaxRuns
    /\ pc' = "fetch"
    /\ runs' = runs + 1
    /\ i' = 1
    /\ all_dfs' = <<>>
    /\ hit_rate_limit' = FALSE
    /\ key_set' \in BOOLEAN
    /\ out' = NoOutcome
    /\ exc' = NoException
    /\ limit_at' = 0
    /\ fetches' = 0
    /\ fetched' = <<>>
    /\ repeat' \in {r \in BOOLEAN : r => prev.saved}
    /\ prev' = IF repeat' THEN prev ELSE NoPrev
    /\ UNCHANGED <<db, analyzer, fnvars>>

\* One iteration of the ticker loop with hit_rate_limit set: skip.
SkipTicker ==
    /\ pc = "fetch"
    /\ i <= Len(TICKERS)
    /\ hit_rate_limit
    /\ i' = i + 1
    /\ UNCHANGED <<db, pc, all_dfs, hit_rate_limit, key_set, analyzer, runs, out,
                   exc, limit_at, fetches, fetched, repeat, prev, fnvars>>

\* One iteration of the ticker loop, fetch_news_for_ticker returning: every
\* fetch_page call answered 200 with a JSON body (resp, the last of them),
\* articles being the pages accumulated.  With record set, the article list
\* is also kept in fetched.
FetchTicker(record) ==
    /\ pc = "fetch"
    /\ i <= Len(TICKERS)
    /\ ~hit_rate_limit
    /\ \E resp \in Responses :
         /\ fetch_page(key_set, resp) = NoException
         /\ \E articles \in ArticleLists :
              /\ all_dfs' = Append(all_dfs, fetch_news_for_ticker(TICKERS[i], articles))
              /\ fetched' = IF record THEN Append(fetched, articles) ELSE fetched
              /\ repeat => IsPrefix(all_dfs', prev.dfs)
    /\ exc' = NoException
    /\ fetches' = i
    /\ i' = i + 1
    /\ UNCHANGED <<db, pc, hit_rate_limit, key_set, analyzer, runs, out, limit_at,
                   repeat, prev, fnvars>>

FetchTickerOk == FetchTicker(FALSE)

\* The same iteration, observed: what the fetch client returned is recorded.
FetchTickerRecorded == FetchTicker(TRUE)

\* One iteration of the ticker loop, a fetch_page call raising (resp, the
\* response to that call): a rate limit is caught and sets hit_rate_limit,
\* anything else leaves main().
FetchTickerRaises ==
    /\ pc = "fetch"
    /\ i <= Len(TICKERS)
    /\ ~hit_rate_limit
    /\ \E resp \in Responses :
         LET e == fetch_page(key_set, resp)
         IN  /\ e # NoException
             /\ exc' = e
             /\ IF e.type = "RuntimeError" /\ IsRateLimit(e)
                THEN /\ repeat => all_dfs = prev.dfs
                     /\ hit_rate_limit' = TRUE
                     /\ limit_at' = i
                     /\ i' = i + 1
                     /\ UNCHANGED <<pc, all_dfs, out, prev, fetched>>
                ELSE /\ ~repeat
                     /\ pc' = "idle"
                     /\ out' = Outcome("raised", e.type, "fetch", 0, 0)
                     /\ prev' = NoPrev
                     /\ i' = 1
                     /\ all_dfs' = <<>>
                     /\ fetched' = <<>>
                     /\ hit_rate_limit' = FALSE
                     /\ limit_at' = 0
    /\ fetches' = i
    /\ UNCHANGED <<db, key_set, analyzer, runs, repeat, fnvars>>

\* The loop is over: build or load, dedup, enrich, save.
Finish ==
    /\ pc = "fetch"
    /\ i > Len(TICKERS)
    /\ LET r == main_tail(analyzer, db, all_dfs)
       IN  /\ db' = r.file
           /\ out' = r.out
           /\ prev' = IF r.out.status = "saved"
                      THEN [saved |-> TRUE, dfs |-> all_dfs]
                      ELSE NoPrev
    /\ pc' = "idle"
    /\ all_dfs' = <<>>
    /\ i' = 1
    /\ hit_rate_limit' = FALSE
    /\ key_set' = TRUE
    /\ exc' = NoException
    /\ limit_at' = 0
    /\ fetches' = 0
    /\ fetched' = <<>>
    /\ UNCHANGED <<analyzer, runs, repeat, fnvars>>

Next == StartRun \/ SkipTicker \/ FetchTickerOk \/ FetchTickerRaises \/ Finish

Spec == Init /\ [][Next]_vars

\* The runs of Spec with the fetched article lists recorded.
RecNext == StartRun \/ SkipTicker \/ FetchTickerRecorded \/ FetchTickerRaises \/ Finish

RecSpec == Init /\ [][RecNext]_vars

\* ------------------------------------------------- the functions on a table
\* A table row as read from an archive file, for the identity functions:
\* NewsID and ArticleKey are null or a value written earlier ("L", "K"); url
\* and title are a string or a blank cell.
IdRows ==
    [Ticker : { <<"n", "v", "d", "a">> }, title : { NAN, <<"x">> },
     description : { NAN }, url : { NAN, <<"a">> }, publishedAt : { <<"1">> },
     content_snippet : { NAN }, NewsID : { NAN, <<"L">> }, ArticleKey : { NAN, <<"K">> },
     sentiment_score : { NAN }, sentiment_label : { NAN }]

\* The (score, label) pairs of a row before enrichment: none, a score with
\* its label, a score whose label is missing.
ScoreLabels ==
    { <<NAN, NAN>>, << <<"score", 5>>, <<"positive">> >>, << <<"score", 0>>, NAN >> }

\* A table row for ensure_sentiment: title blank, whitespace or text;
\* description blank or text.
SentRows ==
    { [Ticker |-> <<"N", "V", "D", "A">>, title |-> t, description |-> d,
       url |-> <<"a">>, publishedAt |-> <<"1">>, content_snippet |-> NAN,
       NewsID |-> <<"L">>, ArticleKey |-> <<"K">>,
       sentiment_score |-> sl[1], sentiment_label |-> sl[2]] :
      t \in { NAN, <<" ">>, <<"x">> }, d \in { NAN, <<"d">> }, sl \in ScoreLabels }

TablesOf(rows) == UNION {[1..n -> rows] : n \in 0..MaxRows}

\* The texts that can be composed from SentRows and IdRows.
FnTexts == { <<"x">>, <<"d">>, <<"x", " ", "d">> }

FnInit ==
    /\ tbl \in TablesOf(IdRows) \cup TablesOf(SentRows)
    /\ tbl0 = tbl
    /\ analyzer \in [FnTexts -> Compounds]
    /\ op = ""
    /\ calls = {}
    /\ out = NoOutcome
    /\ db = NoFile
    /\ pc = "idle"
    /\ i = 1
    /\ all_dfs = <<>>
    /\ hit_rate_limit = FALSE
    /\ key_set = TRUE
    /\ runs = 0
    /\ exc = NoException
    /\ limit_at = 0
    /\ fetches = 0
    /\ fetched = <<>>
    /\ repeat = FALSE
    /\ prev = NoPrev

mainvars ==
    <<db, pc, i, all_dfs, hit_rate_limit, key_set, analyzer, runs, exc, limit_at,
      fetches, fetched, repeat, prev>>

Returned(r, name) ==
    Outcome(IF r.exc = "" THEN "returned" ELSE "raised", r.exc, name, 0, 0)

\* ensure_news_id(tbl)
CallEnsureNewsId ==
    /\ op = ""
    /\ LET r == ensure_news_id(tbl)
       IN  /\ tbl' = IF r.exc = "" THEN r.df ELSE tbl
           /\ out' = Returned(r, "ensure_news_id")
    /\ op' = "ensure_news_id"
    /\ UNCHANGED <<tbl0, calls, mainvars>>

\* ensure_article_key(tbl)
CallEnsureArticleKey ==
    /\ op = ""
    /\ LET r == ensure_article_key(tbl)
       IN  /\ tbl' = IF r.exc = "" THEN r.df ELSE tbl
           /\ out' = Returned(r, "ensure_article_key")
    /\ op' = "ensure_article_key"
    /\ UNCHANGED <<tbl0, calls, mainvars>>

\* ensure_sentiment(tbl)
CallEnsureSentiment ==
    /\ op = ""
    /\ tbl' = ensure_sentiment(analyzer, tbl)
    /\ calls' = polarity_calls(tbl)
    /\ out' = Returned(Ok(tbl), "ensure_sentiment")
    /\ op' = "ensure_sentiment"
    /\ UNCHANGED <<tbl0, mainvars>>

FnNext == CallEnsureNewsId \/ CallEnsureArticleKey \/ CallEnsureSentiment

FnSpec == FnInit /\ [][FnNext]_vars

\* ------------------------------------------- the fingerprints of two records
\* A record handed to make_news_id and make_article_key through the ensure
\* functions: the ticker in lower case, in upper case or with a leading
\* blank; url and title plain or with blanks around (the title also in
\* upper case); no NewsID or ArticleKey yet.
KeyRows ==
    [Ticker : { <<"n", "v", "d", "a">>, <<"N", "V", "D", "A">>, <<" ", "n", "v", "d", "a">> },
     title : { <<"x">>, <<"X", " ">> }, description : { NAN },
     url : { <<"a">>, <<" ", "a">> }, publishedAt : { <<"1">> },
     content_snippet : { NAN }, NewsID : { NAN }, ArticleKey : { NAN },
     sentiment_score : { NAN }, sentiment_label : { NAN }]

KeyInit ==
    /\ tbl \in TablesOf(KeyRows)
    /\ tbl0 = tbl
    /\ analyzer = [t \in FnTexts |-> 0]
    /\ op = ""
    /\ calls = {}
    /\ out = NoOutcome
    /\ db = NoFile
    /\ pc = "idle"
    /\ i = 1
    /\ all_dfs = <<>>
    /\ hit_rate_limit = FALSE
    /\ key_set = TRUE
    /\ runs = 0
    /\ exc = NoException
    /\ limit_at = 0
    /\ fetches = 0
    /\ fetched = <<>>
    /\ repeat = FALSE
    /\ prev = NoPrev

KeyNext == CallEnsureNewsId \/ CallEnsureArticleKey

KeySpec == KeyInit /\ [][KeyNext]_vars

\* ------------------------------------------------------------------ claims
NoDup(df, col) ==
    \A j, k \in DOMAIN df : j # k => DupKey(df[j][col]) # DupKey(df[k][col])

\* C1: every archive a run writes has no two rows with the same NewsID and
\* no two rows with the same ArticleKey.
C1_ArchiveKeysUnique ==
    db.kind = "table" => NoDup(db.rows, "NewsID") /\ NoDup(db.rows, "ArticleKey")

\* C1 witness: a run saved an archive of two or more rows after the dedup
\* passes removed at least one row.
C1_Witness ==
    /\ out.status = "saved"
    /\ db.kind = "table"
    /\ Len(db.rows) >= 2
    /\ out.existing + out.after > Len(db.rows)

\* A row of the loaded archive that no earlier loaded row duplicates.
FirstOfItsKeys(df, k) ==
    \A j \in 1..(k - 1) :
        /\ DupKey(df[j].NewsID) # DupKey(df[k].NewsID)
        /\ DupKey(df[j].ArticleKey) # DupKey(df[k].ArticleKey)

\* C2: a run that writes the archive keeps every row of the archive it
\* loaded, fields unchanged, unless an earlier loaded row has the same NewsID
\* or ArticleKey.
C2_LoadedRowsSurvive ==
    [][(pc = "fetch" /\ db.kind = "table" /\ out'.status = "saved")
        => \A k \in DOMAIN db.rows :
              FirstOfItsKeys(db.rows, k)
              => \E j \in DOMAIN db'.rows : db'.rows[j] = db.rows[k]]_vars

\* C2 witness: a run loaded an archive with rows, appended new rows from the
\* batch and saved.
C2_Witness ==
    out.status = "saved" /\ out.existing >= 1 /\ out.after >= 1

C4_LazyIdentity ==
    /\ (op = "ensure_news_id" /\ out.status = "returned")
         => \A k \in DOMAIN tbl0 :
               ~IsNA(tbl0[k].NewsID) => tbl[k].NewsID = tbl0[k].NewsID
    /\ (op = "ensure_article_key" /\ out.status = "returned")
         => \A k \in DOMAIN tbl0 :
               ~IsNA(tbl0[k].ArticleKey) => tbl[k].ArticleKey = tbl0[k].ArticleKey

\* C5: ensure_sentiment leaves the score and label of every row with a
\* non-null sentiment_score as they were, and calls the analyzer only for
\* rows whose sentiment_score is null.
C5_ScoredRowsUntouched ==
    op = "ensure_sentiment"
    => /\ \A k \in DOMAIN tbl0 :
            ~IsNA(tbl0[k].sentiment_score)
            => /\ tbl[k].sentiment_score = tbl0[k].sentiment_score
               /\ tbl[k].sentiment_label = tbl0[k].sentiment_label
       /\ \A k \in calls : IsNA(tbl0[k].sentiment_score)

\* C5 witness: ensure_sentiment ran on a table with a scored row (whose label
\* is missing) and an unscored row for which the analyzer was called.
C5_Witness ==
    /\ op = "ensure_sentiment"
    /\ \E k \in DOMAIN tbl0 :
          ~IsNA(tbl0[k].sentiment_score) /\ IsNA(tbl0[k].sentiment_label)
    /\ calls # {}

\* Some text column of the row holds a string that is not only whitespace.
HasText(row) ==
    \E c \in {"title", "description", "content_snippet"} :
        IsStr(row[c]) /\ \E n \in DOMAIN row[c] : row[c][n] \notin Whitespace

\* C6: after ensure_sentiment a row whose score was null has a non-null
\* score and label when its composed text is not empty, and a null score and
\* label, with no analyzer call, when it is empty or whitespace only.
C6_UnscoredRowsEnriched ==
    op = "ensure_sentiment"
    => \A k \in DOMAIN tbl0 :
          IsNA(tbl0[k].sentiment_score)
          => IF HasText(tbl0[k])
             THEN ~IsNA(tbl[k].sentiment_score) /\ ~IsNA(tbl[k].sentiment_label)
             ELSE /\ IsNA(tbl[k].sentiment_score)
                  /\ IsNA(tbl[k].sentiment_label)
                  /\ k \notin calls

\* C6 witness: ensure_sentiment ran on a table with an unscored row whose
\* only text is whitespace and an unscored row composed of two columns.
C6_Witness ==
    /\ op = "ensure_sentiment"
    /\ \E k \in DOMAIN tbl0 :
          /\ IsNA(tbl0[k].sentiment_score)
          /\ tbl0[k].title = <<" ">>
          /\ IsNA(tbl0[k].description)
    /\ \E k \in DOMAIN tbl0 :
          /\ IsNA(tbl0[k].sentiment_score)
          /\ tbl0[k].title = <<"x">>
          /\ tbl0[k].description = <<"d">>
          /\ k \in calls

\* A fetch failure that is not a rate-limit error.
FatalFailure(e) ==
    e.type # "" /\ ~(e.type = "RuntimeError" /\ (e.status = 429 \/ e.code = "rateLimited"))

\* The keys main() gives a fetched row.
FetchedId(r) == make_news_id(r.Ticker, r.url, r.publishedAt)
FetchedKey(r) == make_article_key(r.Ticker, r.title, r.publishedAt)

\* C7: once a rate limit is caught at ticker i, no later ticker is fetched,
\* the run ends without an error, every row fetched before i is in the
\* written archive (or a row with its NewsID or ArticleKey is), and with
\* nothing fetched the existing archive is kept.
C7_RateLimitRecoverable ==
    [][(pc = "fetch" /\ limit_at > 0)
        => /\ pc' = "fetch" => fetches' = fetches
           /\ pc' = "idle"
              => /\ out'.status # "raised"
                 /\ all_dfs # <<>>
                    => /\ out'.status = "saved"
                       /\ \A d \in DOMAIN all_dfs : \A k \in DOMAIN all_dfs[d] :
                             \/ FetchedId(all_dfs[d][k]) \in IdsOf(db'.rows)
                             \/ FetchedKey(all_dfs[d][k]) \in KeysOf(db'.rows)
                 /\ (all_dfs = <<>> /\ db.kind # "none")
                    => out'.status = "saved" /\ db'.rows = db.rows]_vars

\* C8: a fetch failure that is not a rate limit ends the run with the error
\* raised from the fetch loop, the archive file untouched; nothing of that
\* run happens afterwards.
C8_FatalFetchAborts ==
    [][/\ (pc = "fetch" /\ FatalFailure(exc'))
          => /\ pc' = "idle"
             /\ out'.status = "raised"
             /\ out'.stage = "fetch"
             /\ out'.exc = exc'.type
             /\ db' = db
       /\ FatalFailure(exc) => (pc = "idle" /\ (pc' = "fetch" => fetches' = 0))]_vars

\* C8 witness: with an archive on disk, the fetch of the first ticker failed
\* fatally and the run is over.
C8_Witness ==
    /\ pc = "idle"
    /\ out.status = "raised"
    /\ out.stage = "fetch"
    /\ FatalFailure(exc)
    /\ fetches = 1
    /\ db.kind = "table"

\* C9: a run whose batch is empty and that finds no archive file ends with
\* the "nothing to do" notice and leaves no archive file.
C9_EmptyBatchNoArchiveNoop ==
    [][(pc = "fetch" /\ pc' = "idle" /\ out'.stage = "merge"
          /\ Concat(all_dfs) = <<>> /\ db.kind = "none")
        => out'.status = "nothing_to_do" /\ db'.kind = "none"]_vars

\* C10: a run whose batch is empty and that finds an archive ends without an
\* error, and the archive it writes holds exactly the loaded rows.
C10_EmptyBatchKeepsArchive ==
    [][(pc = "fetch" /\ pc' = "idle" /\ out'.stage = "merge"
          /\ Concat(all_dfs) = <<>> /\ db.kind = "table")
        => /\ out'.status = "saved"
           /\ db'.kind = "table"
           /\ {db'.rows[k] : k \in DOMAIN db'.rows} = {db.rows[k] : k \in DOMAIN db.rows}]_vars

\* The rows of the run's batch, in fetch order.
Batch == Concat(all_dfs)

\* A batch row whose NewsID is not in the archive and whose ArticleKey is.
TitleCollision(r, archive) ==
    FetchedId(r) \notin IdsOf(archive) /\ FetchedKey(r) \in KeysOf(archive)

\* C11: when a batch row has a NewsID that is not in the loaded archive and
\* the ArticleKey of an archive row, the run saves, the batch row is not in
\* the written archive and the archive row is, unchanged; when every batch
\* row is such a row or has a NewsID of the archive, the size is unchanged.
C11_TitleCollisionDropsNewRow ==
    [][(pc = "fetch" /\ pc' = "idle" /\ out'.stage = "merge" /\ db.kind = "table"
          /\ \E k \in DOMAIN Batch : TitleCollision(Batch[k], db.rows))
        => /\ out'.status = "saved"
           /\ \A k \in DOMAIN Batch :
                 TitleCollision(Batch[k], db.rows)
                 => /\ FetchedId(Batch[k]) \notin IdsOf(db'.rows)
                    /\ \A j \in DOMAIN db.rows :
                          db.rows[j].ArticleKey = FetchedKey(Batch[k])
                          => \E m \in DOMAIN db'.rows : db'.rows[m] = db.rows[j]
           /\ (\A k \in DOMAIN Batch :
                  \/ FetchedId(Batch[k]) \in IdsOf(db.rows)
                  \/ FetchedKey(Batch[k]) \in KeysOf(db.rows))
              => Len(db'.rows) = Len(db.rows)]_vars

\* C11 witness: a run that was not a repeat loaded an archive, found a batch
\* row with a new NewsID and the ArticleKey of an archive row, and saved an
\* archive of the loaded size.
C11_Witness ==
    /\ pc = "idle"
    /\ ~repeat
    /\ out.status = "saved"
    /\ out.existing >= 1
    /\ out.after >= 1
    /\ Len(db.rows) = out.existing
    /\ \E k \in DOMAIN Concat(prev.dfs) :
          TitleCollision(Concat(prev.dfs)[k], db.rows)

\* A missing field read as the empty string.
AsEmpty(v) == IF IsNA(v) THEN <<>> ELSE v

\* C12: when ensure_news_id (ensure_article_key) computes the column of a
\* table, rows with a missing ticker, url, title or publishedAt included, it
\* returns, and every fingerprint is the one of the row's fields with a
\* missing field taken as the empty string.
C12_MissingFieldsAsEmpty ==
    /\ (op = "ensure_news_id" /\ \E k \in DOMAIN tbl0 : IsNA(tbl0[k].NewsID))
         => /\ out.status = "returned"
            /\ \A k \in DOMAIN tbl0 :
                  tbl[k].NewsID =
                      Sha256(Upper(AsEmpty(tbl0[k].Ticker)) \o <<"|">>
                             \o Strip(AsEmpty(tbl0[k].url)) \o <<"|">>
                             \o Strip(AsEmpty(tbl0[k].publishedAt)))
    /\ (op = "ensure_article_key" /\ \E k \in DOMAIN tbl0 : IsNA(tbl0[k].ArticleKey))
         => /\ out.status = "returned"
            /\ \A k \in DOMAIN tbl0 :
                  tbl[k].ArticleKey =
                      Sha256(Strip(Upper(AsEmpty(tbl0[k].Ticker))) \o <<"|">>
                             \o Lower(Strip(AsEmpty(tbl0[k].title))) \o <<"|">>
                             \o Strip(AsEmpty(tbl0[k].publishedAt)))

\* Two records equal in every normalized field: ticker upper-cased and
\* trimmed, url trimmed, title trimmed and lower-cased, publishedAt trimmed.
SameNormalized(r, q) ==
    /\ Strip(Upper(r.Ticker)) = Strip(Upper(q.Ticker))
    /\ Strip(r.url) = Strip(q.url)
    /\ Lower(Strip(r.title)) = Lower(Strip(q.title))
    /\ Strip(r.publishedAt) = Strip(q.publishedAt)

\* C13: two records of a table that are equal in every normalized field get
\* the same NewsID from ensure_news_id and the same ArticleKey from
\* ensure_article_key.
C13_NormalizedFingerprints ==
    /\ (op = "ensure_news_id" /\ out.status = "returned")
         => \A j, k \in DOMAIN tbl0 :
               SameNormalized(tbl0[j], tbl0[k]) => tbl[j].NewsID = tbl[k].NewsID
    /\ (op = "ensure_article_key" /\ out.status = "returned")
         => \A j, k \in DOMAIN tbl0 :
               SameNormalized(tbl0[j], tbl0[k]) => tbl[j].ArticleKey = tbl[k].ArticleKey

\* The rows of every article the fetches of this run returned, in fetch
\* order, as fetch_news_for_ticker builds them.
FetchedRows ==
    Concat([d \in DOMAIN fetched |->
               [k \in DOMAIN fetched[d] |-> RowOf(TICKERS[d], fetched[d][k])]])

\* No archive row and no earlier fetched row has the NewsID or the ArticleKey
\* of the k-th fetched row.
NewArticle(rows, k, archive) ==
    /\ FetchedId(rows[k]) \notin IdsOf(archive)
    /\ FetchedKey(rows[k]) \notin KeysOf(archive)
    /\ \A j \in 1..(k - 1) :
          /\ FetchedId(rows[j]) # FetchedId(rows[k])
          /\ FetchedKey(rows[j]) # FetchedKey(rows[k])

\* C14: when a run reaches the merge, every article its fetches returned is
\* in the written archive (a row with its NewsID is), unless an archive row
\* or an earlier fetched row has the same NewsID or the same ArticleKey.
C14_NoNewArticleLost ==
    [][(pc = "fetch" /\ pc' = "idle" /\ out'.stage = "merge")
        => \A k \in DOMAIN FetchedRows :
              NewArticle(FetchedRows, k, db.rows)
              => /\ db'.kind = "table"
                 /\ FetchedId(FetchedRows[k]) \in IdsOf(db'.rows)]_vars

====
